---------------------------- MODULE Spec2Model ----------------------------
(***************************************************************************)
(* EscrowV1: the escrow registry contract (src/unnamed/part_000) together  *)
(* with the ERC20 collaborator it drives (safeTransferFrom / safeTransfer).*)
(*                                                                         *)
(* Time is counted in days: OneDay is the contract's `1 days`.  uint64 is  *)
(* kept as a width (Uint64Max), scaled so that TLC can enumerate it.       *)
(*                                                                         *)
(* A call of openEscrow or releaseToFreelancer runs up to its external     *)
(* token call, which is left in flight as a frame on `stack`; while it is  *)
(* in flight the token may call back into the registry (re-entrancy), and  *)
(* it ends by returning (the handler completes and emits its event) or by  *)
(* reverting (the whole call is rolled back to the frame's snapshot).      *)
(***************************************************************************)
EXTENDS Integers, Sequences, FiniteSets, TLC

\* ------------------------------------------------------------------ bounds
MaxId == 2          \* invoice ids 1..MaxId; 0 is bytes32(0)
MaxAddr == 2        \* identities 1..MaxAddr; 0 is address(0)
MaxAmount == 2      \* amounts offered to openEscrow: 0..MaxAmount
MaxTime == 3        \* block.timestamp runs from StartTime to MaxTime
MaxDue == 3         \* due dates offered to openEscrow: 0..MaxDue
MaxWindow == 1      \* windows offered to setDisputeWindow: 0..MaxWindow, Uint64Max
MaxReentry == 1     \* depth of calls the token makes back into the registry
InitBalance == 1    \* tokens every identity holds at deployment
StartTime == 1      \* block.timestamp at deployment
MaxList == 2        \* length of the id lists offered to getEscrowsDetails

\* ------------------------------------------------------- program constants
ZeroId == 0                 \* bytes32(0)
ZeroAddr == 0               \* address(0)
Deployer == 1               \* msg.sender of the constructor
OneDay == 1                 \* 1 days
DefaultWindow == 5 * OneDay \* uint64 public disputeWindow = 5 days
Uint64Max == 15             \* type(uint64).max, scaled

Ids == 1..MaxId             \* the ids an escrow can be opened under
IdSpace == 0..MaxId         \* every key of the mappings, bytes32(0) included
Addrs == 1..MaxAddr         \* the identities that can call
AddrSpace == 0..MaxAddr     \* every address value, address(0) included
OneId == {ZeroId, 1}        \* bytes32(0) and a single invoice id
Custody == MaxAddr + 1      \* address(this) in the token's ledger
Holders == Addrs \cup {Custody}

\* enum Status
Status == {"None", "Funded", "Delivered", "Disputed", "Released", "Refunded"}

\* The value of an unset mapping slot escrows[id].
EmptyEscrow ==
    [client |-> ZeroAddr, freelancer |-> ZeroAddr, amount |-> 0,
     dueAt |-> 0, deliveredAt |-> 0, status |-> "None"]

VARIABLES
    escrows,        \* mapping(bytes32 => Escrow)
    escrowExists,   \* mapping(bytes32 => bool)
    userEscrows,    \* mapping(address => bytes32[])
    owner,          \* address public owner
    paused,         \* bool public paused
    disputeWindow,  \* uint64 public disputeWindow
    now,            \* block.timestamp
    ledger,         \* the token's balances, custody included
    events,         \* the log of emitted events
    payouts,        \* per id, the transfers out of custody made for it
    stack,          \* external token calls in flight, innermost last
    result          \* outcome of the last call that ended: "OK" or its revert string

vars == <<escrows, escrowExists, userEscrows, owner, paused, disputeWindow,
          now, ledger, events, payouts, stack, result>>

\* What a revert rolls back: the contract's storage, the token's ledger, the log.
Snapshot ==
    [escrows |-> escrows, escrowExists |-> escrowExists,
     userEscrows |-> userEscrows, paused |-> paused,
     disputeWindow |-> disputeWindow, ledger |-> ledger,
     events |-> events, payouts |-> payouts]

Idle == stack = <<>>

\* uint64(x)
ToUint64(x) == x % (Uint64Max + 1)

\* The constructor without its owner = msg.sender.
InitOwnerUnset ==
    /\ escrows = [i \in IdSpace |-> EmptyEscrow]
    /\ escrowExists = [i \in IdSpace |-> FALSE]
    /\ userEscrows = [a \in Addrs |-> <<>>]
    /\ owner = ZeroAddr
    /\ paused = FALSE
    /\ disputeWindow = DefaultWindow
    /\ now = StartTime
    /\ ledger = [h \in Holders |-> IF h = Custody THEN 0 ELSE InitBalance]
    /\ events = <<>>
    /\ payouts = [i \in IdSpace |-> <<>>]
    /\ stack = <<>>
    /\ result = "OK"

Init ==
    /\ escrows = [i \in IdSpace |-> EmptyEscrow]
    /\ escrowExists = [i \in IdSpace |-> FALSE]
    /\ userEscrows = [a \in Addrs |-> <<>>]
    /\ owner = Deployer
    /\ paused = FALSE
    /\ disputeWindow = DefaultWindow
    /\ now = StartTime
    /\ ledger = [h \in Holders |-> IF h = Custody THEN 0 ELSE InitBalance]
    /\ events = <<>>
    /\ payouts = [i \in IdSpace |-> <<>>]
    /\ stack = <<>>
    /\ result = "OK"

\* A call that reverts before its external call: nothing but the outcome changes.
Reject(err) ==
    /\ result' = err
    /\ UNCHANGED <<escrows, escrowExists, userEscrows, owner, paused,
                   disputeWindow, now, ledger, events, payouts, stack>>

\* ------------------------------------------------------------ administration
\* setPaused carrying the notPaused modifier like the business functions.
setPausedGated(caller, p) ==
    /\ IF paused
         THEN Reject("PAUSED")
         ELSE IF caller # owner
         THEN Reject("NOT_OWNER")
         ELSE /\ paused' = p
              /\ result' = "OK"
              /\ UNCHANGED <<escrows, escrowExists, userEscrows, owner,
                             disputeWindow, now, ledger, events, payouts, stack>>

setPaused(caller, p) ==
    /\ IF caller # owner
         THEN Reject("NOT_OWNER")
         ELSE /\ paused' = p
              /\ result' = "OK"
              /\ UNCHANGED <<escrows, escrowExists, userEscrows, owner,
                             disputeWindow, now, ledger, events, payouts, stack>>

\* The window stored before it is checked, and the failure only reported.
setDisputeWindowWritesFirst(caller, w) ==
    /\ IF caller # owner
         THEN Reject("NOT_OWNER")
         ELSE /\ disputeWindow' = w
              /\ result' = (IF ~(w >= OneDay) THEN "SMALL" ELSE "OK")
              /\ UNCHANGED <<escrows, escrowExists, userEscrows, owner,
                             paused, now, ledger, events, payouts, stack>>

\* setDisputeWindow without its floor.
setDisputeWindowNoFloor(caller, w) ==
    /\ IF caller # owner
         THEN Reject("NOT_OWNER")
         ELSE /\ disputeWindow' = w
              /\ result' = "OK"
              /\ UNCHANGED <<escrows, escrowExists, userEscrows, owner,
                             paused, now, ledger, events, payouts, stack>>

\* setDisputeWindow without its onlyOwner modifier.
setDisputeWindowByAnyone(caller, w) ==
    /\ IF ~(w >= OneDay)
         THEN Reject("SMALL")
         ELSE /\ disputeWindow' = w
              /\ result' = "OK"
              /\ UNCHANGED <<escrows, escrowExists, userEscrows, owner,
                             paused, now, ledger, events, payouts, stack>>

setDisputeWindow(caller, w) ==
    /\ IF caller # owner
         THEN Reject("NOT_OWNER")
         ELSE IF ~(w >= OneDay)
         THEN Reject("SMALL")
         ELSE /\ disputeWindow' = w
              /\ result' = "OK"
              /\ UNCHANGED <<escrows, escrowExists, userEscrows, owner,
                             paused, now, ledger, events, payouts, stack>>

\* ------------------------------------------------------------------ openEscrow
\* openEscrow without its notPaused modifier.
openEscrowIgnoringPause(id, freelancer, amount, dueAt) ==
    IF ~(id # ZeroId) THEN "BAD_ID"
    ELSE IF ~(escrows[id].status = "None") THEN "EXISTS"
    ELSE IF ~(freelancer # ZeroAddr) THEN "BAD_FREELANCER"
    ELSE IF ~(amount > 0) THEN "BAD_AMT"
    ELSE IF ~(dueAt > now) THEN "BAD_DUE"
    ELSE "OK"

\* openEscrow without its status require: an id in use is taken again.
openEscrowOverwrites(id, freelancer, amount, dueAt) ==
    IF paused THEN "PAUSED"
    ELSE IF ~(id # ZeroId) THEN "BAD_ID"
    ELSE IF ~(freelancer # ZeroAddr) THEN "BAD_FREELANCER"
    ELSE IF ~(amount > 0) THEN "BAD_AMT"
    ELSE IF ~(dueAt > now) THEN "BAD_DUE"
    ELSE "OK"

\* The id of a Released record taken for free again.
openEscrowReusesSettled(id, freelancer, amount, dueAt) ==
    IF paused THEN "PAUSED"
    ELSE IF ~(id # ZeroId) THEN "BAD_ID"
    ELSE IF ~(escrows[id].status = "None" \/ escrows[id].status = "Released")
    THEN "EXISTS"
    ELSE IF ~(freelancer # ZeroAddr) THEN "BAD_FREELANCER"
    ELSE IF ~(amount > 0) THEN "BAD_AMT"
    ELSE IF ~(dueAt > now) THEN "BAD_DUE"
    ELSE "OK"

\* The modifier and the requires of openEscrow, in order: the first that fails.
openEscrowError(id, freelancer, amount, dueAt) ==
    IF paused THEN "PAUSED"
    ELSE IF ~(id # ZeroId) THEN "BAD_ID"
    ELSE IF ~(escrows[id].status = "None") THEN "EXISTS"
    ELSE IF ~(freelancer # ZeroAddr) THEN "BAD_FREELANCER"
    ELSE IF ~(amount > 0) THEN "BAD_AMT"
    ELSE IF ~(dueAt > now) THEN "BAD_DUE"
    ELSE "OK"

\* The struct openEscrow stores.
NewEscrow(caller, freelancer, amount, dueAt) ==
    [client |-> caller, freelancer |-> freelancer, amount |-> amount,
     dueAt |-> dueAt, deliveredAt |-> 0, status |-> "Funded"]

\* Only the push for msg.sender: the freelancer's array is left alone.
PushClientOnly(caller, freelancer, id) ==
    [userEscrows EXCEPT ![caller] = Append(@, id)]

\* The ids put at the front of the arrays instead of the end.
PushFront(caller, freelancer, id) ==
    LET first == [userEscrows EXCEPT ![caller] = <<id>> \o @]
    IN  [first EXCEPT ![freelancer] = <<id>> \o @]

\* A single push when msg.sender is the freelancer too.
PushOnce(caller, freelancer, id) ==
    LET first == [userEscrows EXCEPT ![caller] = Append(@, id)]
    IN  IF caller = freelancer THEN first
        ELSE [first EXCEPT ![freelancer] = Append(@, id)]

\* userEscrows after the two pushes of openEscrow.
PushBoth(caller, freelancer, id) ==
    LET first == [userEscrows EXCEPT ![caller] = Append(@, id)]
    IN  [first EXCEPT ![freelancer] = Append(@, id)]

\* openEscrow without its escrowExists[_invoiceId] = true.
openEscrowWithoutFlag(caller, id, freelancer, amount, dueAt) ==
    /\ LET err == openEscrowError(id, freelancer, amount, dueAt) IN
       IF err # "OK"
       THEN Reject(err)
       ELSE /\ escrows' = [escrows EXCEPT ![id] = NewEscrow(caller, freelancer, amount, dueAt)]
            /\ userEscrows' = PushBoth(caller, freelancer, id)
            /\ stack' = Append(stack,
                    [op |-> "open", id |-> id, caller |-> caller,
                     from |-> caller, to |-> Custody, amount |-> amount,
                     freelancer |-> freelancer, dueAt |-> dueAt,
                     snap |-> Snapshot])
            /\ UNCHANGED <<escrowExists, owner, paused, disputeWindow, now,
                           ledger, events, payouts, result>>

\* openEscrow up to usdc.safeTransferFrom(msg.sender, address(this), _amount).
openEscrow(caller, id, freelancer, amount, dueAt) ==
    /\ LET err == openEscrowError(id, freelancer, amount, dueAt) IN
       IF err # "OK"
       THEN Reject(err)
       ELSE /\ escrows' = [escrows EXCEPT ![id] = NewEscrow(caller, freelancer, amount, dueAt)]
            /\ escrowExists' = [escrowExists EXCEPT ![id] = TRUE]
            /\ userEscrows' = PushBoth(caller, freelancer, id)
            /\ stack' = Append(stack,
                    [op |-> "open", id |-> id, caller |-> caller,
                     from |-> caller, to |-> Custody, amount |-> amount,
                     freelancer |-> freelancer, dueAt |-> dueAt,
                     snap |-> Snapshot])
            /\ UNCHANGED <<owner, paused, disputeWindow, now, ledger,
                           events, payouts, result>>

\* --------------------------------------------------------------- markDelivered
\* markDelivered without its status require.
markDeliveredAnyStatus(caller, id) ==
    IF paused THEN "PAUSED"
    ELSE IF ~(caller = escrows[id].freelancer) THEN "ONLY_FREELANCER"
    ELSE "OK"

\* markDelivered without its msg.sender require.
markDeliveredAnyCaller(caller, id) ==
    IF paused THEN "PAUSED"
    ELSE IF ~(escrows[id].status = "Funded") THEN "NOT_FUNDED"
    ELSE "OK"

markDeliveredError(caller, id) ==
    IF paused THEN "PAUSED"
    ELSE IF ~(escrows[id].status = "Funded") THEN "NOT_FUNDED"
    ELSE IF ~(caller = escrows[id].freelancer) THEN "ONLY_FREELANCER"
    ELSE "OK"

\* The due date moved to the delivery time along with the two writes.
DeliveredResetsDue(e) ==
    [e EXCEPT !.deliveredAt = ToUint64(now), !.status = "Delivered",
              !.dueAt = ToUint64(now)]

\* The timestamp write left out: the record is Delivered with deliveredAt 0.
DeliveredUnstamped(e) ==
    [e EXCEPT !.status = "Delivered"]

\* The status write left out: the record stays Funded.
DeliveredStaysFunded(e) ==
    [e EXCEPT !.deliveredAt = ToUint64(now)]

\* The record after markDelivered's two writes.
Delivered(e) ==
    [e EXCEPT !.deliveredAt = ToUint64(now), !.status = "Delivered"]

markDelivered(caller, id) ==
    /\ LET err == markDeliveredError(caller, id) IN
       IF err # "OK"
       THEN Reject(err)
       ELSE /\ escrows' = [escrows EXCEPT ![id] = Delivered(@)]
            /\ events' = Append(events,
                    [type |-> "MarkedDelivered", id |-> id, who |-> caller,
                     amount |-> 0, dueAt |-> 0,
                     at |-> Delivered(escrows[id]).deliveredAt,
                     freelancer |-> ZeroAddr])
            /\ result' = "OK"
            /\ UNCHANGED <<escrowExists, userEscrows, owner, paused,
                           disputeWindow, now, ledger, payouts, stack>>

\* --------------------------------------------------------- releaseToFreelancer
\* uint64 + uint64 under checked arithmetic: does it exceed the type?
AddOverflows(a, b) == a + b > Uint64Max

\* The due date compared with = instead of >=.
EligibleAtDueInstant(e) ==
    IF now = e.dueAt THEN "true"
    ELSE IF e.deliveredAt # 0
    THEN IF AddOverflows(e.deliveredAt, disputeWindow) THEN "panic"
         ELSE IF now >= e.deliveredAt + disputeWindow THEN "true"
         ELSE "false"
    ELSE "false"

\* The due date compared with > instead of >=.
EligibleStrictlyAfterDue(e) ==
    IF now > e.dueAt THEN "true"
    ELSE IF e.deliveredAt # 0
    THEN IF AddOverflows(e.deliveredAt, disputeWindow) THEN "panic"
         ELSE IF now >= e.deliveredAt + disputeWindow THEN "true"
         ELSE "false"
    ELSE "false"

\* The window counted from deliveredAt even when it is the 0 sentinel.
EligibleIgnoringSentinel(e) ==
    IF now >= e.dueAt THEN "true"
    ELSE IF AddOverflows(e.deliveredAt, disputeWindow) THEN "panic"
    ELSE IF now >= e.deliveredAt + disputeWindow THEN "true"
    ELSE "false"

\* The due-date fallback left out: only the window makes a record eligible.
EligibleByWindowOnly(e) ==
    IF e.deliveredAt # 0
    THEN IF AddOverflows(e.deliveredAt, disputeWindow) THEN "panic"
         ELSE IF now >= e.deliveredAt + disputeWindow THEN "true"
         ELSE "false"
    ELSE "false"

\* The window compared with > instead of >=.
EligibleStrictlyAfterWindow(e) ==
    IF now >= e.dueAt THEN "true"
    ELSE IF e.deliveredAt # 0
    THEN IF AddOverflows(e.deliveredAt, disputeWindow) THEN "panic"
         ELSE IF now > e.deliveredAt + disputeWindow THEN "true"
         ELSE "false"
    ELSE "false"

\* _isReleaseEligible: "true", "false", or "panic" when the checked addition
\* e.deliveredAt + disputeWindow overflows uint64.
isReleaseEligible(e) ==
    IF now >= e.dueAt THEN "true"
    ELSE IF e.deliveredAt # 0
    THEN IF AddOverflows(e.deliveredAt, disputeWindow) THEN "panic"
         ELSE IF now >= e.deliveredAt + disputeWindow THEN "true"
         ELSE "false"
    ELSE "false"

\* releaseToFreelancer without its status require.
releaseAnyStatus(id) ==
    IF paused THEN "PAUSED"
    ELSE IF isReleaseEligible(escrows[id]) = "panic" THEN "PANIC"
    ELSE IF ~(isReleaseEligible(escrows[id]) = "true") THEN "NOT_ELIGIBLE"
    ELSE "OK"

\* The two requires of releaseToFreelancer in the other order.
releaseEligibilityFirst(id) ==
    IF paused THEN "PAUSED"
    ELSE IF isReleaseEligible(escrows[id]) = "panic" THEN "PANIC"
    ELSE IF ~(isReleaseEligible(escrows[id]) = "true") THEN "NOT_ELIGIBLE"
    ELSE IF ~(escrows[id].status = "Funded" \/ escrows[id].status = "Delivered")
    THEN "ALREADY_SETTLED"
    ELSE "OK"

\* The pause flag looked at after the two requires instead of before them.
releasePauseLast(id) ==
    IF ~(escrows[id].status = "Funded" \/ escrows[id].status = "Delivered")
    THEN "ALREADY_SETTLED"
    ELSE IF isReleaseEligible(escrows[id]) = "panic" THEN "PANIC"
    ELSE IF ~(isReleaseEligible(escrows[id]) = "true") THEN "NOT_ELIGIBLE"
    ELSE IF paused THEN "PAUSED"
    ELSE "OK"

releaseError(id) ==
    IF paused THEN "PAUSED"
    ELSE IF ~(escrows[id].status = "Funded" \/ escrows[id].status = "Delivered")
    THEN "ALREADY_SETTLED"
    ELSE IF isReleaseEligible(escrows[id]) = "panic" THEN "PANIC"
    ELSE IF ~(isReleaseEligible(escrows[id]) = "true") THEN "NOT_ELIGIBLE"
    ELSE "OK"

\* The status left to be written after the transfer.
SettledLate(e) ==
    [e EXCEPT !.amount = 0]

\* The stored amount left as it was.
SettledKeepsAmount(e) ==
    [e EXCEPT !.status = "Released"]

\* The record after the writes releaseToFreelancer makes before its transfer.
Settled(e) ==
    [e EXCEPT !.status = "Released", !.amount = 0]

\* The amount read back after the stored field was zeroed.
PayoutAfterZero(e) == Settled(e).amount

\* The local `amount` handed to usdc.safeTransfer.
PayoutAmount(e) == e.amount

\* The transfer sent to msg.sender.
PayeeIsCaller(e, caller) == caller

\* The recipient handed to usdc.safeTransfer.
Payee(e, caller) == e.freelancer

\* The call usdc.safeTransfer(e.freelancer, amount) that msg.sender's
\* releaseToFreelancer leaves in flight.
ReleaseCall(caller, id) ==
    [op |-> "release", id |-> id, caller |-> caller,
     from |-> Custody, to |-> Payee(escrows[id], caller),
     amount |-> PayoutAmount(escrows[id]),
     freelancer |-> escrows[id].freelancer, dueAt |-> 0,
     snap |-> Snapshot]

\* releaseToFreelancer up to usdc.safeTransfer(e.freelancer, amount).
releaseToFreelancer(caller, id) ==
    /\ LET err == releaseError(id) IN
       IF err # "OK"
       THEN Reject(err)
       ELSE /\ escrows' = [escrows EXCEPT ![id] = Settled(@)]
            /\ stack' = Append(stack, ReleaseCall(caller, id))
            /\ UNCHANGED <<escrowExists, userEscrows, owner, paused,
                           disputeWindow, now, ledger, events, payouts, result>>

\* ------------------------------------------------------------- the token call
Top == stack[Len(stack)]
Pop == SubSeq(stack, 1, Len(stack) - 1)

\* The ERC20 moves `amount` from one holder to another.
Move(l, from, to, amount) ==
    [h \in Holders |->
        l[h] - (IF h = from THEN amount ELSE 0) + (IF h = to THEN amount ELSE 0)]

\* The event the handler emits once its token call has returned.
EventOf(f) ==
    IF f.op = "open"
    THEN [type |-> "EscrowOpened", id |-> f.id, who |-> f.caller,
          amount |-> f.amount, dueAt |-> f.dueAt, at |-> 0,
          freelancer |-> f.freelancer]
    ELSE [type |-> "Released", id |-> f.id, who |-> escrows[f.id].freelancer,
          amount |-> f.amount, dueAt |-> 0, at |-> ToUint64(now),
          freelancer |-> escrows[f.id].freelancer]

\* The innermost token call returns: the balance has moved, the handler emits
\* its event and ends.
TransferReturns ==
    /\ ~Idle
    /\ ledger[Top.from] >= Top.amount
    /\ ledger' = Move(ledger, Top.from, Top.to, Top.amount)
    /\ payouts' = IF Top.op = "release"
                  THEN [payouts EXCEPT ![Top.id] =
                            Append(@, [to |-> Top.to, amount |-> Top.amount])]
                  ELSE payouts
    /\ events' = Append(events, EventOf(Top))
    /\ stack' = Pop
    /\ result' = "OK"
    /\ UNCHANGED <<escrows, escrowExists, userEscrows, owner, paused,
                   disputeWindow, now>>

\* The failed transfer goes unnoticed: nothing is rolled back.
TransferFailureIgnored ==
    /\ ~Idle
    /\ stack' = Pop
    /\ result' = "TRANSFER_FAILED"
    /\ UNCHANGED <<escrows, escrowExists, userEscrows, owner, paused,
                   disputeWindow, now, ledger, events, payouts>>

\* The innermost token call reverts (balance, allowance, recipient, or a revert
\* the token passes on): SafeERC20 reverts the handler, and with it everything
\* done since the handler was entered.
TransferReverts ==
    /\ ~Idle
    /\ escrows' = Top.snap.escrows
    /\ escrowExists' = Top.snap.escrowExists
    /\ userEscrows' = Top.snap.userEscrows
    /\ paused' = Top.snap.paused
    /\ disputeWindow' = Top.snap.disputeWindow
    /\ ledger' = Top.snap.ledger
    /\ events' = Top.snap.events
    /\ payouts' = Top.snap.payouts
    /\ stack' = Pop
    /\ result' = "TRANSFER_FAILED"
    /\ UNCHANGED <<owner, now>>

\* --------------------------------------------------------------------- time
\* A later block: only between transactions.
Tick ==
    /\ Idle
    /\ now < MaxTime
    /\ now' = now + 1
    /\ UNCHANGED <<escrows, escrowExists, userEscrows, owner, paused,
                   disputeWindow, ledger, events, payouts, stack, result>>

WindowInputs == (0..MaxWindow) \cup {Uint64Max}

\* A call may start at top level or from inside a token call in flight.
CanCall == Len(stack) <= MaxReentry

\* One invoice id, every input shape, the administration, and re-entrancy.
Next ==
    \/ CanCall /\ \E c \in Addrs, p \in BOOLEAN : setPaused(c, p)
    \/ CanCall /\ \E c \in Addrs, w \in WindowInputs : setDisputeWindow(c, w)
    \/ CanCall /\ \E c \in Addrs, i \in OneId, f \in AddrSpace,
                     a \in 0..MaxAmount, d \in 0..MaxDue : openEscrow(c, i, f, a, d)
    \/ CanCall /\ \E c \in Addrs, i \in OneId : markDelivered(c, i)
    \/ CanCall /\ \E c \in Addrs, i \in OneId : releaseToFreelancer(c, i)
    \/ TransferReturns
    \/ TransferReverts
    \/ Tick

Spec == Init /\ [][Next]_vars

\* Several invoice ids side by side: well-formed openEscrow inputs, calls at
\* top level only, the administration left at its deployed values.
NextMulti ==
    \/ Idle /\ \E c \in Addrs, i \in Ids, f \in Addrs,
                  a \in 1..MaxAmount, d \in 1..MaxDue : openEscrow(c, i, f, a, d)
    \/ Idle /\ \E c \in Addrs, i \in Ids : markDelivered(c, i)
    \/ Idle /\ \E c \in Addrs, i \in Ids : releaseToFreelancer(c, i)
    \/ TransferReturns
    \/ TransferReverts
    \/ Tick

SpecMulti == Init /\ [][NextMulti]_vars

\* _isReleaseEligible over every record, time and window: one stored record
\* with arbitrary dates (also those no run of the contract produces), on which
\* releaseToFreelancer is called.
InitAny ==
    \E c \in Addrs, f \in Addrs, d \in 0..MaxDue, v \in 0..MaxTime,
       s \in {"Funded", "Delivered"} :
        /\ escrows = [i \in IdSpace |->
                        IF i = 1
                        THEN [NewEscrow(c, f, 1, d) EXCEPT
                                 !.deliveredAt = v, !.status = s]
                        ELSE EmptyEscrow]
        /\ escrowExists = [i \in IdSpace |-> i = 1]
        /\ userEscrows = [a \in Addrs |->
                            (IF a = c THEN <<1>> ELSE <<>>)
                                \o (IF a = f THEN <<1>> ELSE <<>>)]
        /\ owner = Deployer
        /\ paused = FALSE
        /\ disputeWindow \in WindowInputs \cup {DefaultWindow}
        /\ now \in StartTime..MaxTime
        /\ ledger = [h \in Holders |-> IF h = Custody THEN 1 ELSE InitBalance]
        /\ events = <<[type |-> "EscrowOpened", id |-> 1, who |-> c,
                       amount |-> 1, dueAt |-> d, at |-> 0, freelancer |-> f]>>
        /\ payouts = [i \in IdSpace |-> <<>>]
        /\ stack = <<>>
        /\ result = "OK"

NextAny ==
    \/ Idle /\ \E c \in Addrs : releaseToFreelancer(c, 1)
    \/ TransferReturns
    \/ TransferReverts

SpecAny == InitAny /\ [][NextAny]_vars

\* ---------------------------------------------------------------- the views
\* A sequence with every repeated entry dropped.
RECURSIVE Deduplicated(_)
Deduplicated(seq) ==
    IF seq = <<>> THEN <<>>
    ELSE LET front == Deduplicated(SubSeq(seq, 1, Len(seq) - 1))
             last == seq[Len(seq)]
         IN  IF \E k \in 1..Len(front) : front[k] = last
             THEN front ELSE Append(front, last)

\* The array returned with each id listed once.
getEscrowsByAddressOnce(user) == Deduplicated(userEscrows[user])

\* getEscrowsByAddress: the stored array, as it is.
getEscrowsByAddress(user) == userEscrows[user]

\* The lists of ids a caller can pass to getEscrowsDetails.
IdLists == UNION {[1..n -> IdSpace] : n \in 0..MaxList}

\* The six returned arrays, before the loop has filled anything in; also what
\* the caller has in hand when the call reverts.
NoDetails ==
    [clients |-> <<>>, freelancers |-> <<>>, amounts |-> <<>>,
     dueAts |-> <<>>, deliveredAts |-> <<>>, statuses |-> <<>>]

\* The arrays with the fields of record e filled in at the next index.
WithDetails(out, e) ==
    [clients |-> Append(out.clients, e.client),
     freelancers |-> Append(out.freelancers, e.freelancer),
     amounts |-> Append(out.amounts, e.amount),
     dueAts |-> Append(out.dueAts, e.dueAt),
     deliveredAts |-> Append(out.deliveredAts, e.deliveredAt),
     statuses |-> Append(out.statuses, e.status)]

\* The loop with unknown ids passed over instead of refused.
RECURSIVE DetailsLoopSkipping(_, _, _)
DetailsLoopSkipping(ids, i, out) ==
    IF ~(i <= Len(ids)) THEN [error |-> "OK", data |-> out]
    ELSE IF ~escrowExists[ids[i]] THEN DetailsLoopSkipping(ids, i + 1, out)
    ELSE DetailsLoopSkipping(ids, i + 1, WithDetails(out, escrows[ids[i]]))

\* The for loop of getEscrowsDetails from index i on.
RECURSIVE DetailsLoop(_, _, _)
DetailsLoop(ids, i, out) ==
    IF ~(i <= Len(ids)) THEN [error |-> "OK", data |-> out]
    ELSE IF ~escrowExists[ids[i]]
    THEN [error |-> "INVALID_INVOICE", data |-> NoDetails]
    ELSE DetailsLoop(ids, i + 1, WithDetails(out, escrows[ids[i]]))

\* Partial results: what is known is returned, what is not is left out.
getEscrowsDetailsSkipping(ids) == DetailsLoopSkipping(ids, 1, NoDetails)

\* getEscrowsDetails: its revert string or "OK", and the arrays it returns.
getEscrowsDetails(ids) == DetailsLoop(ids, 1, NoDetails)

\* A call of a view: it ends with its outcome and writes nothing.
callGetEscrowsByAddress(user) ==
    /\ result' = "OK"
    /\ UNCHANGED <<escrows, escrowExists, userEscrows, owner, paused,
                   disputeWindow, now, ledger, events, payouts, stack>>

callGetEscrowsDetails(ids) ==
    /\ result' = getEscrowsDetails(ids).error
    /\ UNCHANGED <<escrows, escrowExists, userEscrows, owner, paused,
                   disputeWindow, now, ledger, events, payouts, stack>>

\* Several invoice ids and the two views, which can be called at any moment,
\* also from inside a token call.
NextView ==
    \/ Idle /\ \E c \in Addrs, i \in Ids, f \in Addrs,
                  a \in 1..MaxAmount, d \in 1..MaxDue : openEscrow(c, i, f, a, d)
    \/ Idle /\ \E c \in Addrs, i \in Ids : markDelivered(c, i)
    \/ Idle /\ \E c \in Addrs, i \in Ids : releaseToFreelancer(c, i)
    \/ \E u \in Addrs : callGetEscrowsByAddress(u)
    \/ \E ids \in IdLists : callGetEscrowsDetails(ids)
    \/ TransferReturns
    \/ TransferReverts
    \/ Tick

SpecView == Init /\ [][NextView]_vars

\* ===================================================================== claims
StatusOf(id) == escrows[id].status
Open(id) == StatusOf(id) = "Funded" \/ StatusOf(id) = "Delivered"

\* A call that ended without touching storage, ledger, log or call stack.
NothingMoved ==
    UNCHANGED <<escrows, escrowExists, userEscrows, owner, paused,
                disputeWindow, now, ledger, events, payouts, stack>>

\* The amount openEscrow(id) deposited, as its EscrowOpened event records it.
RECURSIVE DepositIn(_, _)
DepositIn(log, id) ==
    IF log = <<>> THEN 0
    ELSE IF log[1].type = "EscrowOpened" /\ log[1].id = id THEN log[1].amount
    ELSE DepositIn(Tail(log), id)

\* C1 (as stated): value leaves custody for an id at most once, and
\* releaseToFreelancer on a Released record always fails with ALREADY_SETTLED
\* and moves no value.
C1_Original ==
    [][\A id \in IdSpace :
          /\ Len(payouts'[id]) <= 1
          /\ \A c \in Addrs :
                (StatusOf(id) = "Released" /\ releaseToFreelancer(c, id))
                    => (result' = "ALREADY_SETTLED" /\ NothingMoved)]_vars

\* C1 (amended): value leaves custody for an id at most once, and
\* releaseToFreelancer on a Released record always fails, with ALREADY_SETTLED
\* while the registry is not paused and with PAUSED while it is, and moves no
\* value.
C1_SinglePayout ==
    [][\A id \in IdSpace :
          /\ Len(payouts'[id]) <= 1
          /\ \A c \in Addrs :
                (StatusOf(id) = "Released" /\ releaseToFreelancer(c, id))
                    => /\ result' = (IF paused THEN "PAUSED" ELSE "ALREADY_SETTLED")
                       /\ NothingMoved]_vars

\* A Released record, paid once, on which a further release was just refused.
C1_Witness ==
    \E id \in Ids :
        /\ StatusOf(id) = "Released"
        /\ Len(payouts[id]) = 1
        /\ Idle
        /\ result = "ALREADY_SETTLED"

\* The release frames in flight for id.
InPushOut(id) ==
    \E k \in 1..Len(stack) : stack[k].op = "release" /\ stack[k].id = id

\* While pushOut for an id is in flight its record reads Released, amount 0.
CommittedBeforePushOut ==
    \A k \in 1..Len(stack) :
        stack[k].op = "release"
            => /\ escrows[stack[k].id].status = "Released"
               /\ escrows[stack[k].id].amount = 0

\* C2 (as stated): status is Released and amount zero before pushOut is
\* invoked, and a releaseToFreelancer that re-enters on the same id while
\* pushOut is in flight is rejected with ALREADY_SETTLED; no second transfer
\* for that id occurs.
C2_Original ==
    /\ []CommittedBeforePushOut
    /\ [][\A id \in IdSpace :
             /\ Len(payouts'[id]) <= 1
             /\ \A c \in Addrs :
                   (InPushOut(id) /\ releaseToFreelancer(c, id))
                       => (result' = "ALREADY_SETTLED" /\ NothingMoved)]_vars

\* C2 (amended): as stated, except that the re-entrant releaseToFreelancer is
\* rejected with PAUSED when the owner has paused the registry during the
\* callback, and with ALREADY_SETTLED otherwise.
C2_ReentrantReleaseRejected ==
    /\ []CommittedBeforePushOut
    /\ [][\A id \in IdSpace :
             /\ Len(payouts'[id]) <= 1
             /\ \A c \in Addrs :
                   (InPushOut(id) /\ releaseToFreelancer(c, id))
                       => /\ result' = (IF paused THEN "PAUSED" ELSE "ALREADY_SETTLED")
                          /\ NothingMoved]_vars

\* pushOut for an id is in flight and a re-entrant release was just refused.
C2_Witness ==
    \E id \in Ids :
        /\ InPushOut(id)
        /\ result = "ALREADY_SETTLED"
        /\ StatusOf(id) = "Released"
        /\ payouts[id] = <<>>

\* The status a record has once the calls in flight are reverted or, if none
\* is in flight, the status it has.
CommittedStatus(id) ==
    IF Idle THEN escrows[id].status ELSE stack[1].snap.escrows[id].status

\* A status change and the operation that makes it.
LifecycleStep(id) ==
    \/ StatusOf(id)' = StatusOf(id)
    \/ /\ StatusOf(id) = "None" /\ StatusOf(id)' = "Funded"
       /\ \E c \in Addrs, f \in AddrSpace, a \in 0..MaxAmount, d \in 0..MaxDue :
             openEscrow(c, id, f, a, d)
    \/ /\ StatusOf(id) = "Funded" /\ StatusOf(id)' = "Delivered"
       /\ \E c \in Addrs : markDelivered(c, id)
    \/ /\ Open(id) /\ StatusOf(id)' = "Released"
       /\ \E c \in Addrs : releaseToFreelancer(c, id)

\* C3: every status change is None->Funded by openEscrow, Funded->Delivered by
\* markDelivered, or Funded/Delivered->Released by releaseToFreelancer (a
\* reverted call's writes are undone with it and are no change); no record is
\* ever Disputed or Refunded; a record that is Released stays Released.
C3_Lifecycle ==
    /\ [](\A id \in IdSpace : StatusOf(id) \notin {"Disputed", "Refunded"})
    /\ [][TransferReverts \/ \A id \in IdSpace : LifecycleStep(id)]_vars
    /\ [][\A id \in IdSpace :
             CommittedStatus(id) = "Released" => CommittedStatus(id)' = "Released"]_vars

\* A record that went None -> Funded -> Delivered -> Released.
C3_Witness ==
    \E id \in Ids :
        /\ Idle
        /\ StatusOf(id) = "Released"
        /\ escrows[id].deliveredAt # 0
        /\ \E k \in 1..Len(events) :
              events[k].type = "Released" /\ events[k].id = id

\* C4: a Funded or Delivered record has amount > 0 and a Released record has
\* amount = 0, in every state: the amount is zero from the very step that
\* makes the status Released.
C4_AmountTracksStatus ==
    \A id \in IdSpace :
        /\ Open(id) => escrows[id].amount > 0
        /\ StatusOf(id) = "Released" => escrows[id].amount = 0

\* A release in flight: the record is already Released with amount 0 while
\* the amount it held is still on its way out.
C4_Witness ==
    \E id \in Ids :
        /\ InPushOut(id)
        /\ StatusOf(id) = "Released"
        /\ escrows[id].amount = 0
        /\ Top.amount > 0

\* A release completes and moves exactly the deposit of its id from custody to
\* the stored freelancer, and nothing else.
PushOutExact ==
    /\ TransferReturns
    /\ Top.op = "release"
    /\ DepositIn(events, Top.id) > 0
    /\ ledger' = Move(ledger, Custody, escrows[Top.id].freelancer,
                      DepositIn(events, Top.id))

\* C5: a release that completes moves exactly the amount openEscrow(id)
\* deposited from custody to the record's freelancer and to nobody else, and
\* custody decreases in no other step (a revert only undoes what it rolls back).
C5_ExactPayout ==
    [][/\ (TransferReturns /\ Top.op = "release") => PushOutExact
       /\ (~TransferReverts /\ ledger'[Custody] < ledger[Custody]) => PushOutExact]_vars

\* A deposit of MaxAmount paid out in full to a freelancer who is not the client.
C5_Witness ==
    \E id \in Ids :
        /\ Idle
        /\ StatusOf(id) = "Released"
        /\ escrows[id].client # escrows[id].freelancer
        /\ DepositIn(events, id) = MaxAmount
        /\ payouts[id] = <<[to |-> escrows[id].freelancer, amount |-> MaxAmount]>>
        /\ ledger[escrows[id].freelancer] > InitBalance

\* The stored amounts of the Funded and Delivered records among S, summed.
RECURSIVE SumOpen(_)
SumOpen(S) ==
    IF S = {} THEN 0
    ELSE LET i == CHOOSE x \in S : TRUE
         IN  (IF Open(i) THEN escrows[i].amount ELSE 0) + SumOpen(S \ {i})

\* C6: when no call is in flight, the custody balance equals the sum of the
\* stored amounts of the Funded and Delivered records (zero when all are
\* Released).
C6_CustodyBacksOpenRecords ==
    Idle => ledger[Custody] = SumOpen(IdSpace)

\* One record paid out and another still open, custody holding the open one.
C6_Witness ==
    \E i \in Ids, j \in Ids :
        /\ Idle
        /\ StatusOf(i) = "Released"
        /\ Len(payouts[i]) = 1
        /\ Open(j)
        /\ escrows[j].amount = MaxAmount
        /\ ledger[Custody] = MaxAmount

\* The innermost call, f on id, has just failed on its transfer and everything
\* is as it was when that call was entered.
RolledBack(f, id) ==
    /\ escrows' = f.snap.escrows
    /\ escrowExists' = f.snap.escrowExists
    /\ userEscrows' = f.snap.userEscrows
    /\ paused' = f.snap.paused
    /\ disputeWindow' = f.snap.disputeWindow
    /\ owner' = owner
    /\ f.op = "open" =>
          /\ escrows'[id].status = "None"
          /\ ~escrowExists'[id]
          /\ \A a \in Addrs : \A k \in 1..Len(userEscrows'[a]) :
                userEscrows'[a][k] # id
    /\ f.op = "release" =>
          /\ Open(id)'
          /\ escrows'[id].amount = f.amount
          /\ f.amount > 0
          /\ releaseError(id)' = "OK"

\* C7: when pullIn fails in openEscrow or pushOut fails in releaseToFreelancer
\* the call fails and records, existence flags, indices and admin fields are
\* as before the call: no record or index entry after a failed open; after a
\* failed release the record keeps status and amount and is releasable still.
C7_TransferFailureRollsBack ==
    [][\A id \in IdSpace :
          (~Idle /\ result' = "TRANSFER_FAILED" /\ stack' = Pop /\ Top.id = id)
              => RolledBack(Top, id)]_vars

\* A release whose pushOut has just failed: the record is open and eligible.
C7_Witness ==
    \E id \in Ids :
        /\ Idle
        /\ result = "TRANSFER_FAILED"
        /\ Open(id)
        /\ releaseError(id) = "OK"

\* isEligible(record, now) as the specification writes it, over the integers.
EligibleBySpec(e) ==
    \/ now >= e.dueAt
    \/ e.deliveredAt # 0 /\ now >= e.deliveredAt + disputeWindow

\* C9: the eligibility decision is true exactly when now >= dueAt, or
\* deliveredAt # 0 and now >= deliveredAt + disputeWindow, for every record,
\* time and window; releaseToFreelancer on an open record goes on to its
\* transfer exactly then, and a refusal changes no state.
C9_EligibilityDecision ==
    /\ [](\A id \in IdSpace :
            (isReleaseEligible(escrows[id]) = "true") <=> EligibleBySpec(escrows[id]))
    /\ [][\A id \in IdSpace : \A c \in Addrs :
             (Open(id) /\ ~paused /\ releaseToFreelancer(c, id))
                 => /\ (stack' # stack) <=> EligibleBySpec(escrows[id])
                    /\ (stack' = stack) => NothingMoved]_vars

\* A release let through by the window alone: before the due date, at exactly
\* deliveredAt + disputeWindow.
C9_Witness ==
    /\ ~Idle
    /\ Top.op = "release"
    /\ now < Top.snap.escrows[Top.id].dueAt
    /\ Top.snap.escrows[Top.id].deliveredAt # 0
    /\ now = Top.snap.escrows[Top.id].deliveredAt + Top.snap.disputeWindow

\* C10 (as stated): on a Funded record never marked delivered,
\* releaseToFreelancer strictly before dueAt always fails with NOT_ELIGIBLE.
C10_Original ==
    [][\A id \in IdSpace : \A c \in Addrs :
          (/\ StatusOf(id) = "Funded"
           /\ escrows[id].deliveredAt = 0
           /\ now < escrows[id].dueAt
           /\ releaseToFreelancer(c, id))
              => (result' = "NOT_ELIGIBLE" /\ NothingMoved)]_vars

\* C10 (amended): on a Funded record never marked delivered,
\* releaseToFreelancer strictly before dueAt always fails: with NOT_ELIGIBLE
\* while the registry is not paused, with PAUSED while it is.
C10_EarlyReleaseRefused ==
    [][\A id \in IdSpace : \A c \in Addrs :
          (/\ StatusOf(id) = "Funded"
           /\ escrows[id].deliveredAt = 0
           /\ now < escrows[id].dueAt
           /\ releaseToFreelancer(c, id))
              => /\ result' = (IF paused THEN "PAUSED" ELSE "NOT_ELIGIBLE")
                 /\ NothingMoved]_vars

\* An undelivered Funded record, a day after a one-day window could have
\* elapsed and before its due date, on which a release was just refused.
C10_Witness ==
    \E id \in Ids :
        /\ Idle
        /\ StatusOf(id) = "Funded"
        /\ escrows[id].deliveredAt = 0
        /\ disputeWindow = OneDay
        /\ now > StartTime
        /\ now < escrows[id].dueAt
        /\ result = "NOT_ELIGIBLE"

\* ------------------------------------------------------------------ liveness
\* One invoice id, calls at top level, under the scheduling the settlement
\* guarantee assumes.
NextLive ==
    \/ Idle /\ \E c \in Addrs, p \in BOOLEAN : setPaused(c, p)
    \/ Idle /\ \E c \in Addrs, w \in WindowInputs : setDisputeWindow(c, w)
    \/ Idle /\ \E c \in Addrs, f \in Addrs, a \in 1..MaxAmount, d \in 1..MaxDue :
                  openEscrow(c, 1, f, a, d)
    \/ Idle /\ \E c \in Addrs : markDelivered(c, 1)
    \/ Idle /\ \E c \in Addrs : releaseToFreelancer(c, 1)
    \/ TransferReturns
    \/ TransferReverts
    \/ Tick

\* The owner lifts a pause.
Unpause == Idle /\ paused /\ setPaused(owner, FALSE)

\* Some caller invokes releaseToFreelancer on a record that passes its requires.
ReleaseStarts ==
    Idle /\ \E c \in Addrs : releaseError(1) = "OK" /\ releaseToFreelancer(c, 1)

\* pushOut succeeds.
PushOutReturns == TransferReturns /\ Top.op = "release"

\* Time advances, the registry is not paused for ever, somebody calls release,
\* and pushOut succeeds.
Fairness ==
    /\ SF_vars(Tick)
    /\ SF_vars(Unpause)
    /\ SF_vars(ReleaseStarts)
    /\ SF_vars(PushOutReturns)

SpecLive == Init /\ [][NextLive]_vars /\ Fairness

\* C8: under that fairness every record that is Funded (its openEscrow
\* completed) is eventually Released, whether or not client or freelancer
\* ever act on it again.
C8_FundedLeadsToReleased ==
    (Idle /\ StatusOf(1) = "Funded") ~> (Idle /\ StatusOf(1) = "Released")

\* A record released by the due-date fallback alone, never marked delivered.
C8_Witness ==
    /\ Idle
    /\ StatusOf(1) = "Released"
    /\ escrows[1].deliveredAt = 0
    /\ Len(payouts[1]) = 1

\* ------------------------------------------------- release at or after dueAt
\* releaseToFreelancer(id) passed its requires: the record reads Released and
\* the stored amount is on its way to the stored freelancer.
ReleaseProceeds(id) ==
    /\ StatusOf(id)' = "Released"
    /\ Len(stack') = Len(stack) + 1
    /\ stack'[Len(stack')].op = "release"
    /\ stack'[Len(stack')].id = id
    /\ stack'[Len(stack')].to = escrows[id].freelancer
    /\ stack'[Len(stack')].amount = escrows[id].amount

\* pushOut returns: the freelancer of the record holds the amount.
PushOutPays ==
    (TransferReturns /\ Top.op = "release")
        => /\ Top.to = escrows[Top.id].freelancer
           /\ ledger'[Top.to] = ledger[Top.to] + Top.amount
           /\ ledger'[Custody] = ledger[Custody] - Top.amount

\* C11 (as stated): on a Funded or Delivered record, releaseToFreelancer at
\* any time now >= dueAt, exactly dueAt included, succeeds: the status becomes
\* Released and the freelancer is paid, delivered or not.
C11_Original ==
    [][/\ \A id \in IdSpace : \A c \in Addrs :
             (Open(id) /\ now >= escrows[id].dueAt /\ releaseToFreelancer(c, id))
                 => ReleaseProceeds(id)
       /\ PushOutPays]_vars

\* C11 (amended): on a Funded or Delivered record, releaseToFreelancer at any
\* time now >= dueAt, exactly dueAt included, succeeds while the registry is
\* not paused (status Released, the freelancer paid, delivered or not); while
\* it is paused the call fails with PAUSED and changes nothing.
C11_ReleaseFromDueDate ==
    [][/\ \A id \in IdSpace : \A c \in Addrs :
             (Open(id) /\ now >= escrows[id].dueAt /\ releaseToFreelancer(c, id))
                 => IF paused THEN result' = "PAUSED" /\ NothingMoved
                              ELSE ReleaseProceeds(id)
       /\ PushOutPays]_vars

\* A record never marked delivered, released at exactly its due date and paid
\* to its freelancer.
C11_Witness ==
    \E id \in Ids :
        /\ Idle
        /\ StatusOf(id) = "Released"
        /\ escrows[id].deliveredAt = 0
        /\ \E k \in 1..Len(events) :
              /\ events[k].type = "Released"
              /\ events[k].id = id
              /\ events[k].at = escrows[id].dueAt
        /\ Len(payouts[id]) = 1
        /\ payouts[id][1].to = escrows[id].freelancer
        /\ payouts[id][1].amount > 0

\* ------------------------------------------------------- the dispute window
\* C12 (as stated): after a successful markDelivered, releaseToFreelancer
\* fails with NOT_ELIGIBLE at every time strictly less than
\* deliveredAt + disputeWindow and succeeds at exactly deliveredAt + disputeWindow.
C12_Original ==
    [][\A id \in IdSpace : \A c \in Addrs :
          (StatusOf(id) = "Delivered" /\ releaseToFreelancer(c, id))
              => /\ now < escrows[id].deliveredAt + disputeWindow
                        => (result' = "NOT_ELIGIBLE" /\ NothingMoved)
                 /\ now = escrows[id].deliveredAt + disputeWindow
                        => ReleaseProceeds(id)]_vars

\* C12 (amended): after a successful markDelivered, while the registry is not
\* paused and the due date has not come, releaseToFreelancer fails with
\* NOT_ELIGIBLE at every time strictly less than deliveredAt + disputeWindow
\* and succeeds at exactly deliveredAt + disputeWindow; from the due date on it
\* succeeds whatever the window; while paused it fails with PAUSED; and when
\* deliveredAt + disputeWindow exceeds uint64 the call before the due date
\* fails with the arithmetic panic instead of NOT_ELIGIBLE.
C12_WindowBoundary ==
    [][\A id \in IdSpace : \A c \in Addrs :
          (StatusOf(id) = "Delivered" /\ releaseToFreelancer(c, id))
              => IF paused
                 THEN result' = "PAUSED" /\ NothingMoved
                 ELSE IF now >= escrows[id].dueAt
                 THEN ReleaseProceeds(id)
                 ELSE IF escrows[id].deliveredAt + disputeWindow > Uint64Max
                 THEN result' = "PANIC" /\ NothingMoved
                 ELSE /\ now < escrows[id].deliveredAt + disputeWindow
                            => (result' = "NOT_ELIGIBLE" /\ NothingMoved)
                      /\ now = escrows[id].deliveredAt + disputeWindow
                            => ReleaseProceeds(id)]_vars

\* A record marked delivered, refused no longer and released at exactly
\* deliveredAt + disputeWindow, before its due date.
C12_Witness ==
    \E id \in Ids :
        /\ Idle
        /\ StatusOf(id) = "Released"
        /\ escrows[id].deliveredAt # 0
        /\ Len(payouts[id]) = 1
        /\ \E k \in 1..Len(events) :
              /\ events[k].type = "Released"
              /\ events[k].id = id
              /\ events[k].at = escrows[id].deliveredAt + disputeWindow
              /\ events[k].at < escrows[id].dueAt

\* ------------------------------------------------------ caller independence
\* The step just taken by releaseToFreelancer(id) is the step msg.sender c2
\* takes: the same refusal, or the same writes and the same transfer in
\* flight, the frame's record of msg.sender (c1) apart.
SameForCaller(c1, c2, id) ==
    \/ releaseToFreelancer(c2, id)
    \/ /\ releaseError(id) = "OK"
       /\ escrows' = [escrows EXCEPT ![id] = Settled(@)]
       /\ stack' = Append(stack, [ReleaseCall(c2, id) EXCEPT !.caller = c1])
       /\ UNCHANGED <<escrowExists, userEscrows, owner, paused,
                      disputeWindow, now, ledger, events, payouts, result>>

\* C13: the outcome of releaseToFreelancer does not depend on who calls it:
\* for any two callers on the same id in the same state at the same time both
\* calls succeed or both fail with the same error, with the same resulting
\* state and the same payout to the record's freelancer.
C13_CallerIndependence ==
    [][\A id \in IdSpace : \A c1 \in Addrs : \A c2 \in Addrs :
          releaseToFreelancer(c1, id) => SameForCaller(c1, c2, id)]_vars

\* A release called by an identity that is neither client nor freelancer of
\* the record, paid to the freelancer.
C13_Witness ==
    \E id \in Ids :
        /\ ~Idle
        /\ Top.op = "release"
        /\ Top.id = id
        /\ Top.caller # escrows[id].client
        /\ Top.caller # escrows[id].freelancer
        /\ Top.to = escrows[id].freelancer

RECURSIVE DeliveriesIn(_, _)
DeliveriesIn(log, id) ==
    IF log = <<>> THEN 0
    ELSE (IF log[1].type = "MarkedDelivered" /\ log[1].id = id THEN 1 ELSE 0)
            + DeliveriesIn(Tail(log), id)

\* deliveredAt is 0 until a markDelivered succeeds, and markDelivered has
\* succeeded at most once per record.
DeliveredAtMostOnce ==
    \A id \in IdSpace :
        /\ StatusOf(id) \in {"None", "Funded"} => escrows[id].deliveredAt = 0
        /\ DeliveriesIn(events, id) <= 1

\* deliveredAt changes only from 0 to the current time, by a markDelivered on
\* a Funded record (a reverted call's writes are undone with it).
DeliveredAtWrittenOnce ==
    TransferReverts \/
    \A id \in IdSpace :
        escrows'[id].deliveredAt # escrows[id].deliveredAt
            => /\ escrows[id].deliveredAt = 0
               /\ StatusOf(id) = "Funded"
               /\ escrows'[id].deliveredAt = now
               /\ StatusOf(id)' = "Delivered"
               /\ \E c \in Addrs : markDelivered(c, id)

\* C15 (as stated): deliveredAt is 0 from creation until a successful
\* markDelivered sets it to the current time and is never modified afterwards;
\* markDelivered succeeds at most once per record, and every repeat call
\* fails with NOT_FUNDED leaving deliveredAt and status unchanged.
C15_Original ==
    /\ []DeliveredAtMostOnce
    /\ [][DeliveredAtWrittenOnce]_vars
    /\ [][\A id \in IdSpace : \A c \in Addrs :
             (escrows[id].deliveredAt # 0 /\ markDelivered(c, id))
                 => /\ result' = "NOT_FUNDED"
                    /\ escrows'[id].status = escrows[id].status
                    /\ escrows'[id].deliveredAt = escrows[id].deliveredAt]_vars

\* C15 (amended): as stated, except that a repeat call fails with PAUSED
\* while the registry is paused, and with NOT_FUNDED while it is not.
C15_DeliveredAtSetOnce ==
    /\ []DeliveredAtMostOnce
    /\ [][DeliveredAtWrittenOnce]_vars
    /\ [][\A id \in IdSpace : \A c \in Addrs :
             (escrows[id].deliveredAt # 0 /\ markDelivered(c, id))
                 => /\ result' = (IF paused THEN "PAUSED" ELSE "NOT_FUNDED")
                    /\ escrows'[id].status = escrows[id].status
                    /\ escrows'[id].deliveredAt = escrows[id].deliveredAt]_vars

\* A record marked delivered on an earlier day, still Delivered with that
\* date after a further markDelivered was refused.
C15_Witness ==
    \E id \in Ids :
        /\ Idle
        /\ StatusOf(id) = "Delivered"
        /\ escrows[id].deliveredAt # 0
        /\ escrows[id].deliveredAt < now
        /\ DeliveriesIn(events, id) = 1
        /\ result = "NOT_FUNDED"

\* ------------------------------------------------------------------- pause
\* Some call of one of the three party-facing operations, on any input.
PartyCall ==
    \/ \E c \in Addrs, i \in IdSpace, f \in AddrSpace,
          a \in 0..MaxAmount, d \in 0..MaxDue : openEscrow(c, i, f, a, d)
    \/ \E c \in Addrs, i \in IdSpace : markDelivered(c, i)
    \/ \E c \in Addrs, i \in IdSpace : releaseToFreelancer(c, i)

\* setPaused writes the flag and nothing else.
PauseTouchesFlagOnly ==
    (\E c \in Addrs, p \in BOOLEAN : setPaused(c, p))
        => UNCHANGED <<escrows, escrowExists, userEscrows, owner,
                       disputeWindow, now, ledger, events, payouts, stack>>

\* C16: while the pause flag is set openEscrow, markDelivered and
\* releaseToFreelancer each fail with PAUSED and leave records, existence
\* flags, indices, admin fields and custody unchanged; setting and clearing
\* the flag changes nothing else, so after the owner clears it each operation
\* meets the state, and behaves, as if the pause had never happened.
C16_PauseFrame ==
    [][/\ (paused /\ PartyCall) => (result' = "PAUSED" /\ NothingMoved)
       /\ PauseTouchesFlagOnly]_vars

\* A paused registry holding an open, eligible, funded record, on which a
\* call was just refused.
C16_Witness ==
    \E id \in Ids :
        /\ Idle
        /\ paused
        /\ result = "PAUSED"
        /\ Open(id)
        /\ releaseAnyStatus(id) = "PAUSED"
        /\ isReleaseEligible(escrows[id]) = "true"
        /\ ledger[Custody] = escrows[id].amount

\* C17: for openEscrow, markDelivered and releaseToFreelancer the pause flag
\* is checked before every other precondition: under pause the call fails
\* with PAUSED also when the id is zero, the record exists, the freelancer is
\* null, the amount is zero, the due date is past, the status is wrong, the
\* caller is wrong, or the record is not eligible.
C17_PauseCheckedFirst ==
    [][(paused /\ result' # "PAUSED") =>
       /\ \A c \in Addrs, i \in IdSpace, f \in AddrSpace,
             a \in 0..MaxAmount, d \in 0..MaxDue :
            (\/ i = ZeroId
             \/ StatusOf(i) # "None"
             \/ f = ZeroAddr
             \/ a = 0
             \/ d <= now) => ~openEscrow(c, i, f, a, d)
       /\ \A c \in Addrs, i \in IdSpace :
            (StatusOf(i) # "Funded" \/ c # escrows[i].freelancer)
                => ~markDelivered(c, i)
       /\ \A c \in Addrs, i \in IdSpace :
            (~Open(i) \/ ~EligibleBySpec(escrows[i]))
                => ~releaseToFreelancer(c, i)]_vars

\* A paused registry whose record is Released, so that every operation on its
\* id breaks a further precondition, and a call was refused with PAUSED.
C17_Witness ==
    \E id \in Ids :
        /\ Idle
        /\ paused
        /\ StatusOf(id) = "Released"
        /\ result = "PAUSED"

\* ------------------------------------------------------- effects of openEscrow
\* The preconditions of openEscrow, as the specification lists them.
OpenPreconditions(i, f, a, d) ==
    /\ ~paused
    /\ i # ZeroId
    /\ StatusOf(i) = "None"
    /\ f # ZeroAddr
    /\ a > 0
    /\ d > now

\* Exactly the record of i goes from None to Funded with the given fields.
OneRecordFunded(c, i, f, a, d) ==
    /\ StatusOf(i) = "None"
    /\ escrows'[i] = [client |-> c, freelancer |-> f, amount |-> a,
                      dueAt |-> d, deliveredAt |-> 0, status |-> "Funded"]
    /\ \A j \in IdSpace \ {i} : escrows'[j] = escrows[j]

\* C18 (as stated): every openEscrow call that satisfies all preconditions
\* with an unused id moves exactly one record from None to Funded, with
\* client = caller, the given freelancer, amount and dueAt, deliveredAt = 0;
\* the client's and the freelancer's index each gain exactly one new entry
\* for that id; no other record or index is changed.
C18_Original ==
    [][\A i \in Ids : StatusOf(i) = "None" =>
        \A d \in 0..MaxDue : d > now =>
          \A c \in Addrs, f \in AddrSpace, a \in 0..MaxAmount :
            (OpenPreconditions(i, f, a, d) /\ openEscrow(c, i, f, a, d))
                => /\ OneRecordFunded(c, i, f, a, d)
                   /\ \A u \in Addrs :
                        userEscrows'[u] = IF u \in {c, f}
                                          THEN Append(userEscrows[u], i)
                                          ELSE userEscrows[u]]_vars

\* C18 (amended): as stated, except that when the caller names itself as
\* freelancer its index gains two new entries for that id, one as client and
\* one as freelancer.
C18_OpenEffects ==
    [][\A i \in Ids : StatusOf(i) = "None" =>
        \A d \in 0..MaxDue : d > now =>
          \A c \in Addrs, f \in AddrSpace, a \in 0..MaxAmount :
            (OpenPreconditions(i, f, a, d) /\ openEscrow(c, i, f, a, d))
                => /\ OneRecordFunded(c, i, f, a, d)
                   /\ \A u \in Addrs :
                        userEscrows'[u] =
                            userEscrows[u]
                                \o (IF u = c THEN <<i>> ELSE <<>>)
                                \o (IF u = f THEN <<i>> ELSE <<>>)]_vars

\* Two escrows opened and funded, one by a client for another freelancer and
\* one by that freelancer naming itself: the first listed once by each party,
\* the second twice by its one party.
C18_Witness ==
    \E i \in Ids, j \in Ids :
        /\ Idle
        /\ i # j
        /\ StatusOf(i) = "Funded"
        /\ StatusOf(j) = "Funded"
        /\ escrows[i].client # escrows[i].freelancer
        /\ escrows[j].client = escrows[j].freelancer
        /\ escrows[j].client = escrows[i].freelancer
        /\ userEscrows[escrows[i].client] = <<i>>
        /\ userEscrows[escrows[i].freelancer] = <<i, j, j>>
        /\ ledger[Custody] = escrows[i].amount + escrows[j].amount

\* ------------------------------------------------------------ re-opening an id
\* C19 (as stated): openEscrow with an id that was ever successfully opened
\* always fails with EXISTS, whatever the record's status (Funded, Delivered
\* or Released), and leaves the existing record unchanged: in no state can
\* such a call end otherwise.
C19_Original ==
    \A i \in IdSpace : StatusOf(i) # "None" =>
        \A c \in Addrs, f \in AddrSpace, a \in 0..MaxAmount, d \in 0..MaxDue :
            ~ENABLED (/\ openEscrow(c, i, f, a, d)
                      /\ ~(result' = "EXISTS" /\ NothingMoved))

\* C19 (amended): openEscrow with an id that was ever successfully opened
\* always fails, with EXISTS while the registry is not paused and with PAUSED
\* while it is, whatever the record's status, and leaves the existing record
\* unchanged.
C19_ReopenRefused ==
    \A i \in IdSpace : StatusOf(i) # "None" =>
        \A c \in Addrs, f \in AddrSpace, a \in 0..MaxAmount, d \in 0..MaxDue :
            ~ENABLED (/\ openEscrow(c, i, f, a, d)
                      /\ ~(/\ result' = (IF paused THEN "PAUSED" ELSE "EXISTS")
                           /\ NothingMoved))

\* A Released record, paid out, whose id was just refused to a new openEscrow.
C19_Witness ==
    \E id \in Ids :
        /\ Idle
        /\ StatusOf(id) = "Released"
        /\ Len(payouts[id]) = 1
        /\ escrowExists[id]
        /\ result = "EXISTS"

\* ------------------------------------------------------------ owner-only admin
\* C20: setPaused and setDisputeWindow called by any identity other than the
\* owner fail with NOT_OWNER, whatever the argument, and leave the pause flag
\* and the dispute window unchanged.
C20_AdminOwnerOnly ==
    [][\A c \in Addrs : c # owner =>
         /\ \A p \in BOOLEAN :
               setPaused(c, p)
                   => /\ result' = "NOT_OWNER"
                      /\ UNCHANGED <<paused, disputeWindow>>
         /\ \A w \in WindowInputs :
               setDisputeWindow(c, w)
                   => /\ result' = "NOT_OWNER"
                      /\ UNCHANGED <<paused, disputeWindow>>]_vars

\* The owner has paused the registry and shortened the window, and a call by
\* somebody else was just refused: flag and window are as the owner set them.
C20_Witness ==
    /\ Idle
    /\ paused
    /\ disputeWindow = OneDay
    /\ result = "NOT_OWNER"

\* ------------------------------------------------------- the window's floor
\* C21 (as stated): disputeWindow is 5 days initially and at least 1 day in
\* every reachable state; setDisputeWindow with a value below 1 day fails
\* with SMALL and leaves it unchanged.
C21_Original ==
    /\ disputeWindow = 5 * OneDay
    /\ [](disputeWindow >= OneDay)
    /\ [][\A c \in Addrs : \A w \in WindowInputs :
             (w < OneDay /\ setDisputeWindow(c, w))
                 => (result' = "SMALL" /\ disputeWindow' = disputeWindow)]_vars

\* C21 (amended): as stated, except that a value below 1 day is refused with
\* SMALL when the owner calls and with NOT_OWNER when anybody else does.
C21_WindowFloor ==
    /\ disputeWindow = 5 * OneDay
    /\ [](disputeWindow >= OneDay)
    /\ [][\A c \in Addrs : \A w \in WindowInputs :
             (w < OneDay /\ setDisputeWindow(c, w))
                 => /\ result' = (IF c = owner THEN "SMALL" ELSE "NOT_OWNER")
                    /\ disputeWindow' = disputeWindow]_vars

\* The owner has brought the window down to exactly one day and was then
\* refused a smaller one.
C21_Witness ==
    /\ Idle
    /\ disputeWindow = OneDay
    /\ result = "SMALL"

\* ------------------------------------------------------------------ the owner
\* C22: the owner is set at construction to the creator and is the same in
\* every reachable state; no operation changes it.
C22_OwnerConstant ==
    /\ owner = Deployer
    /\ [](owner = Deployer)
    /\ [][owner' = owner]_vars

\* The owner has used both setters, somebody else was just refused one, and a
\* record has gone through to Released: the owner is the creator still.
C22_Witness ==
    \E id \in Ids :
        /\ Idle
        /\ owner = Deployer
        /\ paused
        /\ disputeWindow # DefaultWindow
        /\ StatusOf(id) = "Released"
        /\ result = "NOT_OWNER"

\* ----------------------------------------------------------- getEscrowsDetails
\* Some id of the list was never opened.
HasUnknownId(ids) == \E k \in 1..Len(ids) : StatusOf(ids[k]) = "None"

\* C23: getEscrowsDetails over a list in which at least one id was never
\* opened fails as a whole with INVALID_INVOICE and returns no data, wherever
\* the unknown id stands in the list and even if every other id is valid.
C23_DetailsFailFast ==
    /\ [](\A ids \in IdLists :
            HasUnknownId(ids)
                => getEscrowsDetails(ids) =
                       [error |-> "INVALID_INVOICE", data |-> NoDetails])
    /\ [][\A ids \in IdLists :
             (HasUnknownId(ids) /\ callGetEscrowsDetails(ids))
                 => (result' = "INVALID_INVOICE" /\ NothingMoved)]_vars

\* One id opened and one not: the opened one alone is answered, the two
\* together in either order are refused, and a call was just refused.
C23_Witness ==
    \E i \in Ids, j \in Ids :
        /\ StatusOf(i) # "None"
        /\ StatusOf(j) = "None"
        /\ getEscrowsDetails(<<i>>).error = "OK"
        /\ getEscrowsDetails(<<i, j>>).error = "INVALID_INVOICE"
        /\ getEscrowsDetails(<<j, i>>).error = "INVALID_INVOICE"
        /\ result = "INVALID_INVOICE"

\* --------------------------------------------------------- getEscrowsByAddress
\* The EscrowOpened events of the log, followed by the one an openEscrow in
\* flight is about to emit.
OpenedSoFar ==
    events \o (IF ~Idle /\ Top.op = "open" THEN <<EventOf(Top)>> ELSE <<>>)

\* The index of identity u as the openings build it: each opening lists its
\* id under its client and then under its freelancer.
RECURSIVE IndexFromLog(_, _)
IndexFromLog(log, u) ==
    IF log = <<>> THEN <<>>
    ELSE LET ev == log[Len(log)]
             before == IndexFromLog(SubSeq(log, 1, Len(log) - 1), u)
         IN  IF ev.type # "EscrowOpened" THEN before
             ELSE before \o (IF ev.who = u THEN <<ev.id>> ELSE <<>>)
                         \o (IF ev.freelancer = u THEN <<ev.id>> ELSE <<>>)

\* C24: getEscrowsByAddress(identity) returns exactly that identity's index,
\* in insertion order and without deduplication: an id opened by an identity
\* naming itself as freelancer stands twice in its sequence.
C24_IndexVerbatim ==
    \A u \in Addrs : getEscrowsByAddress(u) = IndexFromLog(OpenedSoFar, u)

\* An identity that is freelancer of one escrow and then both parties of
\* another: the view returns the first id once and the second twice.
C24_Witness ==
    \E u \in Addrs, i \in Ids, j \in Ids :
        /\ Idle
        /\ i # j
        /\ escrows[i].client # u
        /\ escrows[i].freelancer = u
        /\ escrows[j].client = u
        /\ escrows[j].freelancer = u
        /\ getEscrowsByAddress(u) = <<i, j, j>>

\* ------------------------------------------------------- the index only grows
IsPrefix(s, t) == Len(s) <= Len(t) /\ SubSeq(t, 1, Len(s)) = s

\* The index of u once the calls in flight are reverted or, if none is in
\* flight, the index as it is: what an operation leaves behind.
CommittedIndex(u) ==
    IF Idle THEN userEscrows[u] ELSE stack[1].snap.userEscrows[u]

Listed(u, id) == \E k \in 1..Len(userEscrows[u]) : userEscrows[u][k] = id

\* C25: each identity's index only grows: after any operation the previous
\* sequence is a prefix of the new one, entries are added only by an
\* openEscrow that passed its checks (and are undone only with it, when its
\* transfer fails), and the ids of Released escrows remain listed.
C25_IndexAppendOnly ==
    /\ [][\A u \in Addrs : IsPrefix(CommittedIndex(u), CommittedIndex(u)')]_vars
    /\ [][TransferReverts \/
          \A u \in Addrs :
             /\ IsPrefix(userEscrows[u], userEscrows'[u])
             /\ userEscrows'[u] # userEscrows[u]
                   => \E c \in Addrs, i \in Ids, f \in Addrs,
                         a \in 1..MaxAmount, d \in 1..MaxDue :
                         /\ openEscrowError(i, f, a, d) = "OK"
                         /\ u \in {c, f}
                         /\ openEscrow(c, i, f, a, d)]_vars
    /\ [](\A i \in Ids :
            StatusOf(i) = "Released"
                => /\ Listed(escrows[i].client, i)
                   /\ Listed(escrows[i].freelancer, i))

\* A Released escrow still listed first in an index to which a later escrow
\* has since been added.
C25_Witness ==
    \E u \in Addrs, i \in Ids, j \in Ids :
        /\ Idle
        /\ i # j
        /\ StatusOf(i) = "Released"
        /\ StatusOf(j) = "Funded"
        /\ userEscrows[u][1] = i
        /\ userEscrows[u][Len(userEscrows[u])] = j

\* ---------------------------------------------------------------- rejections
\* The call ends refused, before any external call, and yet something changed.
RefusedButChanged ==
    /\ stack' = stack
    /\ result' # "OK"
    /\ ~NothingMoved

\* In this state no call of a public operation, whatever its caller and
\* arguments, can be refused on a precondition and change anything.
RefusalsChangeNothing ==
    /\ \A c \in Addrs, p \in BOOLEAN :
          ~ENABLED (setPaused(c, p) /\ RefusedButChanged)
    /\ \A c \in Addrs, w \in WindowInputs :
          ~ENABLED (setDisputeWindow(c, w) /\ RefusedButChanged)
    /\ \A c \in Addrs, i \in IdSpace, f \in AddrSpace,
          a \in 0..MaxAmount, d \in 0..MaxDue :
          ~ENABLED (openEscrow(c, i, f, a, d) /\ RefusedButChanged)
    /\ \A c \in Addrs, i \in IdSpace :
          ~ENABLED (markDelivered(c, i) /\ RefusedButChanged)
    /\ \A c \in Addrs, i \in IdSpace :
          ~ENABLED (releaseToFreelancer(c, i) /\ RefusedButChanged)
    /\ \A ids \in IdLists :
          ~ENABLED (callGetEscrowsDetails(ids) /\ RefusedButChanged)

\* Records, flags, indices, admin fields, custody and log are what they were
\* when the call f was entered.
AsBeforeCall(f) ==
    /\ escrows' = f.snap.escrows
    /\ escrowExists' = f.snap.escrowExists
    /\ userEscrows' = f.snap.userEscrows
    /\ paused' = f.snap.paused
    /\ disputeWindow' = f.snap.disputeWindow
    /\ owner' = owner
    /\ ledger'[Custody] = f.snap.ledger[Custody]
    /\ events' = f.snap.events

\* C26: every rejected call of any public operation (validation,
\* authorization, state, availability or transfer error) leaves the record
\* table, existence flags, indices, admin fields and custody balance exactly
\* as they were before the call and emits no notification.
C26_RejectedCallsChangeNothing ==
    /\ []RefusalsChangeNothing
    /\ [][(~Idle /\ result' = "TRANSFER_FAILED" /\ stack' = Pop)
             => AsBeforeCall(Top)]_vars

\* A funded record in custody, its one notification in the log, and a call
\* just refused for its zero id.
C26_Witness ==
    \E id \in Ids :
        /\ Idle
        /\ StatusOf(id) = "Funded"
        /\ ledger[Custody] = escrows[id].amount
        /\ Len(events) = 1
        /\ result = "BAD_ID"

\* ------------------------------------------------------------- notifications
\* The record table an observer holds after one more notification: OPENED
\* creates the record from the fields it carries, DELIVERED stamps it,
\* RELEASED settles it and zeroes its amount.
ApplyEvent(table, ev) ==
    IF ev.type = "EscrowOpened"
    THEN [table EXCEPT ![ev.id] =
             [client |-> ev.who, freelancer |-> ev.freelancer,
              amount |-> ev.amount, dueAt |-> ev.dueAt,
              deliveredAt |-> 0, status |-> "Funded"]]
    ELSE IF ev.type = "MarkedDelivered"
    THEN [table EXCEPT ![ev.id] =
             [@ EXCEPT !.deliveredAt = ev.at, !.status = "Delivered"]]
    ELSE [table EXCEPT ![ev.id] =
             [@ EXCEPT !.status = "Released", !.amount = 0]]

\* The record table reconstructed by replaying the log from an empty table.
RECURSIVE Replay(_)
Replay(log) ==
    IF log = <<>> THEN [i \in DOMAIN escrows |-> EmptyEscrow]
    ELSE ApplyEvent(Replay(SubSeq(log, 1, Len(log) - 1)), log[Len(log)])

\* This step appends exactly one notification, of the given type and id.
AppendsOne(type, id) ==
    /\ Len(events') = Len(events) + 1
    /\ SubSeq(events', 1, Len(events)) = events
    /\ events'[Len(events')].type = type
    /\ events'[Len(events')].id = id

\* Each successful operation appends exactly one notification of its kind.
OneNotificationEach ==
    /\ \A c \in Addrs, i \in Ids :
          (markDelivered(c, i) /\ result' = "OK")
              => AppendsOne("MarkedDelivered", i)
    /\ (~Idle /\ stack' = Pop /\ result' = "OK")
          => AppendsOne(IF Top.op = "open" THEN "EscrowOpened" ELSE "Released",
                        Top.id)

\* C27: each successful openEscrow, markDelivered and releaseToFreelancer
\* appends exactly one OPENED, DELIVERED or RELEASED notification, and after
\* any sequence of operations the record table rebuilt by replaying the log
\* alone equals the registry's record table.
C27_LogReplaysToState ==
    /\ [][OneNotificationEach]_vars
    /\ [](Idle => Replay(events) = escrows)

\* The freelancer's markDelivered ran inside the openEscrow's pullIn: DELIVERED
\* stands before OPENED in the log, the replay ends on a Funded record never
\* delivered, the registry holds a Delivered one.
C27_Witness ==
    \E id \in Ids :
        /\ Idle
        /\ Len(events) = 2
        /\ events[1].type = "MarkedDelivered" /\ events[1].id = id
        /\ events[2].type = "EscrowOpened" /\ events[2].id = id
        /\ StatusOf(id) = "Delivered"
        /\ Replay(events)[id].status = "Funded"
        /\ Replay(events)[id].deliveredAt = 0

\* ----------------------------------------------------------- error precedence
\* The error of the first violated precondition of a documented list, "OK"
\* when none is violated.
RECURSIVE FirstViolated(_)
FirstViolated(checks) ==
    IF checks = <<>> THEN "OK"
    ELSE IF ~checks[1].ok THEN checks[1].err
    ELSE FirstViolated(Tail(checks))

\* How many preconditions of the list are violated.
RECURSIVE Violations(_)
Violations(checks) ==
    IF checks = <<>> THEN 0
    ELSE (IF checks[1].ok THEN 0 ELSE 1) + Violations(Tail(checks))

\* The preconditions of the three operations in their documented order, the
\* pause check left aside.
OpenChecks(i, f, a, d) ==
    << [ok |-> i # ZeroId,           err |-> "BAD_ID"],
       [ok |-> StatusOf(i) = "None", err |-> "EXISTS"],
       [ok |-> f # ZeroAddr,         err |-> "BAD_FREELANCER"],
       [ok |-> a > 0,                err |-> "BAD_AMT"],
       [ok |-> d > now,              err |-> "BAD_DUE"] >>

DeliverChecks(c, i) ==
    << [ok |-> StatusOf(i) = "Funded",     err |-> "NOT_FUNDED"],
       [ok |-> c = escrows[i].freelancer,  err |-> "ONLY_FREELANCER"] >>

ReleaseChecks(i) ==
    << [ok |-> Open(i),                    err |-> "ALREADY_SETTLED"],
       [ok |-> EligibleBySpec(escrows[i]), err |-> "NOT_ELIGIBLE"] >>

\* C28: when the system is not paused and a call violates several
\* preconditions at once, it fails with the error of the earliest violated
\* one in the documented order: BAD_ID, EXISTS, BAD_FREELANCER, BAD_AMT,
\* BAD_DUE for openEscrow; NOT_FUNDED before ONLY_FREELANCER for
\* markDelivered; ALREADY_SETTLED before NOT_ELIGIBLE for releaseToFreelancer.
C28_ErrorPrecedence ==
    ~paused =>
        /\ \A c \in Addrs, i \in IdSpace, f \in AddrSpace,
              a \in 0..MaxAmount, d \in 0..MaxDue :
              Violations(OpenChecks(i, f, a, d)) >= 2
                  => ~ENABLED (/\ openEscrow(c, i, f, a, d)
                               /\ result' # FirstViolated(OpenChecks(i, f, a, d)))
        /\ \A c \in Addrs, i \in IdSpace :
              Violations(DeliverChecks(c, i)) >= 2
                  => ~ENABLED (/\ markDelivered(c, i)
                               /\ result' # FirstViolated(DeliverChecks(c, i)))
        /\ \A c \in Addrs, i \in IdSpace :
              Violations(ReleaseChecks(i)) >= 2
                  => ~ENABLED (/\ releaseToFreelancer(c, i)
                               /\ result' # FirstViolated(ReleaseChecks(i)))

\* A released record that a widened window has made ineligible again, and a
\* release of it just refused with ALREADY_SETTLED.
C28_Witness ==
    \E id \in Ids :
        /\ Idle
        /\ ~paused
        /\ StatusOf(id) = "Released"
        /\ ~EligibleBySpec(escrows[id])
        /\ Violations(ReleaseChecks(id)) = 2
        /\ result = "ALREADY_SETTLED"

\* ------------------------------------------------------------ frame of writes
\* Between these two states every record but that of id, every index, every
\* existence flag and the admin fields are the same.
OnlyRecordTouched(id) ==
    /\ \A j \in IdSpace \ {id} : escrows'[j] = escrows[j]
    /\ UNCHANGED <<userEscrows, escrowExists, owner, paused, disputeWindow>>

\* A record that exists before and after the step keeps its identity fields.
IdentityKept(id) ==
    (StatusOf(id) # "None" /\ escrows'[id].status # "None")
        => /\ escrows'[id].client = escrows[id].client
           /\ escrows'[id].freelancer = escrows[id].freelancer
           /\ escrows'[id].dueAt = escrows[id].dueAt

\* C29: after creation a record's client, freelancer and dueAt never change;
\* markDelivered modifies only that record's deliveredAt and status,
\* releaseToFreelancer only that record's status and amount, and neither
\* modifies any other record, any participant index, any existence flag or
\* the admin fields.
C29_WritesFramed ==
    /\ [][\A id \in IdSpace : IdentityKept(id)]_vars
    /\ [][\A c \in Addrs, id \in IdSpace :
             (markDelivered(c, id) /\ result' = "OK")
                 => /\ escrows'[id] =
                          [escrows[id] EXCEPT
                               !.deliveredAt = escrows'[id].deliveredAt,
                               !.status = escrows'[id].status]
                    /\ OnlyRecordTouched(id)]_vars
    /\ [][\A c \in Addrs, id \in IdSpace :
             (releaseToFreelancer(c, id) /\ stack' # stack)
                 => /\ escrows'[id] =
                          [escrows[id] EXCEPT
                               !.status = escrows'[id].status,
                               !.amount = escrows'[id].amount]
                    /\ OnlyRecordTouched(id)]_vars
    /\ [][(~Idle /\ Top.op = "release" /\ stack' = Pop /\ result' = "OK")
             => /\ escrows' = escrows
                /\ OnlyRecordTouched(Top.id)]_vars

\* A record delivered and then released, still carrying its parties and due
\* date, beside another record that is still Funded.
C29_Witness ==
    \E i \in Ids, j \in Ids :
        /\ Idle
        /\ i # j
        /\ StatusOf(i) = "Released"
        /\ escrows[i].deliveredAt # 0
        /\ escrows[i].client # ZeroAddr
        /\ escrows[i].freelancer # ZeroAddr
        /\ escrows[i].dueAt > escrows[i].deliveredAt
        /\ StatusOf(j) = "Funded"
        /\ escrows[j].amount > 0

\* ------------------------------------------------------------- existence flag
\* The flag of id as the last completed operation left it.
CommittedExists(id) ==
    IF Idle THEN escrowExists[id] ELSE stack[1].snap.escrowExists[id]

\* An EscrowOpened notification for id stands in the log.
OpenedIn(log, id) ==
    \E k \in 1..Len(log) : log[k].type = "EscrowOpened" /\ log[k].id = id

\* C30: in every reachable state and for every id the existence flag is set
\* exactly when the record's status is not None; once set it is never
\* cleared (the flag set by an openEscrow whose transfer fails goes with that
\* call); so getEscrowsDetails accepts exactly the ids on which openEscrow has
\* succeeded, and a list exactly when all its ids are such.
C30_ExistenceFlag ==
    /\ [](\A id \in IdSpace : escrowExists[id] <=> StatusOf(id) # "None")
    /\ [][\A id \in IdSpace : CommittedExists(id) => CommittedExists(id)']_vars
    /\ [][\A id \in IdSpace :
             (escrowExists[id] /\ ~escrowExists'[id])
                 => /\ ~Idle
                    /\ stack' = Pop
                    /\ result' = "TRANSFER_FAILED"
                    /\ ~Top.snap.escrowExists[id]]_vars
    /\ [](\A id \in IdSpace :
             getEscrowsDetails(<<id>>).error = "OK" <=> OpenedIn(OpenedSoFar, id))
    /\ [](\A ids \in IdLists :
             getEscrowsDetails(ids).error = "OK"
                 <=> \A k \in 1..Len(ids) : OpenedIn(OpenedSoFar, ids[k]))

\* One id opened and since released, the other never opened: the view takes
\* the first and refuses the second.
C30_Witness ==
    \E i \in Ids, j \in Ids :
        /\ Idle
        /\ StatusOf(i) = "Released" /\ escrowExists[i]
        /\ OpenedIn(events, i)
        /\ getEscrowsDetails(<<i>>).error = "OK"
        /\ StatusOf(j) = "None" /\ ~escrowExists[j]
        /\ ~OpenedIn(events, j)
        /\ getEscrowsDetails(<<j>>).error = "INVALID_INVOICE"

\* ------------------------------------------------------- index and records agree
\* C31: in every reachable state, every id in an identity's index names an
\* existing record whose client or freelancer is that identity, and every
\* existing record's id stands in its client's index and in its freelancer's.
C31_IndexMatchesRecords ==
    /\ \A u \in Addrs : \A k \in 1..Len(userEscrows[u]) :
          LET id == userEscrows[u][k] IN
              /\ StatusOf(id) # "None"
              /\ escrowExists[id]
              /\ u \in {escrows[id].client, escrows[id].freelancer}
    /\ \A id \in IdSpace :
          StatusOf(id) # "None"
              => /\ escrows[id].client \in Addrs
                 /\ escrows[id].freelancer \in Addrs
                 /\ Listed(escrows[id].client, id)
                 /\ Listed(escrows[id].freelancer, id)

\* Two records between two distinct parties in opposite roles, one of them
\* already released: each id stands in both indices.
C31_Witness ==
    \E i \in Ids, j \in Ids :
        /\ Idle
        /\ i # j
        /\ StatusOf(i) = "Released"
        /\ StatusOf(j) = "Funded"
        /\ escrows[i].client # escrows[i].freelancer
        /\ escrows[j].client = escrows[i].freelancer
        /\ escrows[j].freelancer = escrows[i].client
        /\ userEscrows[escrows[i].client] = <<i, j>>
        /\ userEscrows[escrows[i].freelancer] = <<i, j>>

\* ------------------------------------------------- re-entrancy during pullIn
\* An openEscrow of id is waiting for its token call to return.
InPullIn(id) ==
    \E k \in 1..Len(stack) : stack[k].op = "open" /\ stack[k].id = id

\* The step that enters pullIn: the record, the flag and both index entries
\* are in storage, and neither the ledger nor the log has moved.
WrittenBeforePullIn ==
    (Len(stack') = Len(stack) + 1 /\ stack'[Len(stack')].op = "open")
        => LET f == stack'[Len(stack')] IN
           /\ escrows'[f.id] =
                 NewEscrow(f.caller, f.freelancer, f.amount, f.dueAt)
           /\ escrowExists'[f.id]
           /\ \E k \in 1..Len(userEscrows'[f.caller]) :
                 userEscrows'[f.caller][k] = f.id
           /\ \E k \in 1..Len(userEscrows'[f.freelancer]) :
                 userEscrows'[f.freelancer][k] = f.id
           /\ ledger' = ledger
           /\ events' = events

\* While pullIn for id is in progress no release of id can get through, and
\* nothing has been paid out for it.
NoReleaseDuringPullIn(id) ==
    /\ payouts[id] = <<>>
    /\ \A c \in Addrs :
          ~ENABLED (/\ releaseToFreelancer(c, id)
                    /\ ~(result' # "OK" /\ NothingMoved))

\* C32 (as stated): openEscrow writes the record, the existence flag and both
\* index entries before invoking pullIn; a call re-entering while pullIn for
\* id is in progress sees a Funded record whose funds have not arrived, cannot
\* make value leave custody for that id (a re-entrant releaseToFreelancer is
\* rejected), and a re-entrant openEscrow with the same id fails with EXISTS.
C32_Original ==
    /\ [][WrittenBeforePullIn]_vars
    /\ [](\A id \in Ids : InPullIn(id) =>
            /\ NoReleaseDuringPullIn(id)
            /\ \A c \in Addrs, f \in AddrSpace,
                  a \in 0..MaxAmount, d \in 0..MaxDue :
                  ~ENABLED (/\ openEscrow(c, id, f, a, d)
                            /\ ~(result' = "EXISTS" /\ NothingMoved)))

\* C32: as above, except that the re-entrant openEscrow with the same id
\* fails with PAUSED when the system has been paused since the outer call
\* began, and with EXISTS otherwise.
C32_ReentryDuringPullIn ==
    /\ [][WrittenBeforePullIn]_vars
    /\ [](\A id \in Ids : InPullIn(id) =>
            /\ NoReleaseDuringPullIn(id)
            /\ \A c \in Addrs, f \in AddrSpace,
                  a \in 0..MaxAmount, d \in 0..MaxDue :
                  ~ENABLED (/\ openEscrow(c, id, f, a, d)
                            /\ ~(/\ result' = IF paused THEN "PAUSED"
                                              ELSE "EXISTS"
                                 /\ NothingMoved)))

\* pullIn in progress for a Funded record, custody still empty, and a
\* re-entrant release of it just refused as not eligible.
C32_Witness ==
    /\ ~Idle
    /\ Top.op = "open"
    /\ StatusOf(Top.id) = "Funded"
    /\ escrows[Top.id].amount > 0
    /\ ledger[Custody] = 0
    /\ ~paused
    /\ result = "NOT_ELIGIBLE"

\* ------------------------------------------------------ eligibility over time
\* The record of id is open and _isReleaseEligible says yes.
Eligible(id) == Open(id) /\ isReleaseEligible(escrows[id]) = "true"

\* C33 (as stated): once a Funded or Delivered record is eligible for release
\* it remains eligible at every later time until it is released, under any
\* interleaving of other operations, setDisputeWindow by the owner included.
C33_Original ==
    [][\A id \in Ids : (Eligible(id) /\ Open(id)') => Eligible(id)']_vars

\* C33: a Funded or Delivered record that has reached its due date remains
\* eligible until it is released, whatever else happens; one that is eligible
\* through the dispute window alone remains so as long as no step raises
\* disputeWindow.
C33_EligibilityStable ==
    /\ [][\A id \in Ids :
             (Open(id) /\ now >= escrows[id].dueAt /\ Open(id)')
                 => Eligible(id)']_vars
    /\ [][\A id \in Ids :
             (Eligible(id) /\ Open(id)' /\ disputeWindow' <= disputeWindow)
                 => Eligible(id)']_vars

\* A delivered record eligible through the window alone, its due date still
\* ahead, and the system paused by the owner in the meantime.
C33_Witness ==
    \E id \in Ids :
        /\ Idle
        /\ StatusOf(id) = "Delivered"
        /\ Eligible(id)
        /\ now < escrows[id].dueAt
        /\ now >= escrows[id].deliveredAt + disputeWindow
        /\ paused

\* ------------------------------------------------------- the window addition
\* C34: in every reachable state the eligibility check computes
\* deliveredAt + disputeWindow within uint64, so releaseToFreelancer on a
\* Delivered record that is not yet eligible fails with NOT_ELIGIBLE and
\* never with an arithmetic overflow fault, for every window that
\* setDisputeWindow accepts.
C34_WindowAdditionInRange ==
    \A id \in Ids :
        (StatusOf(id) = "Delivered" /\ ~EligibleBySpec(escrows[id]))
            => /\ ~AddOverflows(escrows[id].deliveredAt, disputeWindow)
               /\ isReleaseEligible(escrows[id]) = "false"
               /\ ~paused
                     => \A c \in Addrs :
                           ~ENABLED (/\ releaseToFreelancer(c, id)
                                     /\ result' # "NOT_ELIGIBLE")

\* The owner has set the largest window setDisputeWindow accepts; a release
\* of the delivered record, its due date still ahead, has just ended in the
\* overflow panic.
C34_Witness ==
    \E id \in Ids :
        /\ Idle
        /\ ~paused
        /\ StatusOf(id) = "Delivered"
        /\ now < escrows[id].dueAt
        /\ disputeWindow = Uint64Max
        /\ AddOverflows(escrows[id].deliveredAt, disputeWindow)
        /\ releaseError(id) = "PANIC"
        /\ result = "PANIC"

\* ------------------------------------------------------------ never stuck paused
\* The owner's setPaused(p) can be taken and always ends with the flag at p.
OwnerSetsPause(p) ==
    /\ ENABLED setPaused(owner, p)
    /\ ~ENABLED (/\ setPaused(owner, p)
                 /\ ~(paused' = p /\ result' = "OK"))

\* The owner's setDisputeWindow(w) always ends with the window at w.
OwnerSetsWindow(w) ==
    /\ ENABLED setDisputeWindow(owner, w)
    /\ ~ENABLED (/\ setDisputeWindow(owner, w)
                 /\ ~(disputeWindow' = w /\ result' = "OK"))

\* No call of the three business operations can end in PAUSED.
NoPausedRejection ==
    /\ \A c \in Addrs, i \in IdSpace, f \in AddrSpace,
          a \in 0..MaxAmount, d \in 0..MaxDue :
          ~ENABLED (openEscrow(c, i, f, a, d) /\ result' = "PAUSED")
    /\ \A c \in Addrs, i \in IdSpace :
          ~ENABLED (markDelivered(c, i) /\ result' = "PAUSED")
    /\ \A c \in Addrs, i \in IdSpace :
          ~ENABLED (releaseToFreelancer(c, i) /\ result' = "PAUSED")

\* C35: setPaused and setDisputeWindow are not gated by the pause flag: in
\* every paused state the owner's setPaused(false) succeeds (and so do
\* setPaused(true) and setDisputeWindow with an accepted window), and once the
\* flag is down openEscrow, markDelivered and releaseToFreelancer are no
\* longer rejected with PAUSED: the system is never stuck paused.
C35_NeverStuckPaused ==
    /\ [](paused => /\ OwnerSetsPause(FALSE)
                    /\ OwnerSetsPause(TRUE)
                    /\ \A w \in WindowInputs : w >= OneDay => OwnerSetsWindow(w))
    /\ [](~paused => NoPausedRejection)

\* The system paused over an open record that is due, and a call just
\* rejected with PAUSED: the state the owner's setPaused(false) leads out of.
C35_Witness ==
    \E id \in Ids :
        /\ Idle
        /\ paused
        /\ Open(id)
        /\ now >= escrows[id].dueAt
        /\ result = "PAUSED"
        /\ ENABLED (setPaused(owner, FALSE) /\ ~paused')

\* ------------------------------------------------------ deliveredAt and status
\* A MarkedDelivered of id stands in the log, and none stands after a
\* Released of id.
DeliveredBeforeRelease(id) ==
    /\ DeliveriesIn(events, id) >= 1
    /\ \A j \in 1..Len(events), k \in 1..Len(events) :
          (/\ events[j].type = "Released" /\ events[j].id = id
           /\ events[k].type = "MarkedDelivered" /\ events[k].id = id)
              => k < j

\* C36: in every reachable state a Funded record has deliveredAt = 0; a
\* Delivered record has deliveredAt # 0 and deliveredAt <= now; a Released
\* record has deliveredAt # 0 exactly when markDelivered succeeded on it
\* before its release.
C36_DeliveredAtByStatus ==
    \A id \in IdSpace :
        /\ StatusOf(id) = "Funded" => escrows[id].deliveredAt = 0
        /\ StatusOf(id) = "Delivered"
              => /\ escrows[id].deliveredAt # 0
                 /\ escrows[id].deliveredAt <= now
                 /\ DeliveriesIn(events, id) = 1
        /\ StatusOf(id) = "Released"
              => /\ escrows[id].deliveredAt # 0 <=> DeliveredBeforeRelease(id)
                 /\ escrows[id].deliveredAt = 0 <=> DeliveriesIn(events, id) = 0
                 /\ escrows[id].deliveredAt <= now

\* A record delivered at one time and released at a later one: it keeps the
\* delivery time, and MarkedDelivered precedes Released in the log.
C36_Witness ==
    \E id \in Ids :
        /\ Idle
        /\ StatusOf(id) = "Released"
        /\ escrows[id].deliveredAt # 0
        /\ escrows[id].deliveredAt < now
        /\ DeliveredBeforeRelease(id)
        /\ events[Len(events)].type = "Released"

=============================================================================
